---- MODULE Spec2Model ----
(***************************************************************************)
(* A model of the pathway-agent MCP server: the enrichment tools           *)
(* (perform_enrichment, analyze_gene_file, enrichment_with_plot), the      *)
(* tabular gene reader (read_gene_list, detect_gene_column), the bar-chart *)
(* renderer (create_enrichment_barplot) and the interaction report         *)
(* (explain_mechanism, format_score).                                      *)
(*                                                                         *)
(* Text is modelled as sequences of one-character strings, so that         *)
(* str.upper, str.lower and str.strip are computed character by character. *)
(* Python values whose type varies (None, str, dict) carry a type tag.     *)
(***************************************************************************)
EXTENDS Integers, Sequences, FiniteSets, TLC

VARIABLES
    pc,        \* per invocation: where the tool coroutine is suspended
    frame,     \* per invocation: the tool's arguments and local variables
    ret,       \* per invocation: how the invocation ended (text or exception)
    net,       \* per invocation: the remote calls issued and their results, in order
    files,     \* the image files on disk: absolute path -> chart
    dirs,      \* the directories created by the renderer
    reader,    \* one call of read_gene_list: input, position, result
    mech       \* one call of explain_mechanism: input, position, result

vars == <<pc, frame, ret, net, files, dirs, reader, mech>>

-----------------------------------------------------------------------------
(* Bounds of the model.                                                    *)

MaxCols == 2       \* columns of a generated table
MaxRows == 3       \* rows of a generated table
MaxTerms == 2      \* terms in a response of the enrichment service
MaxTopN == 3       \* largest top_n argument
MaxEdges == 2      \* edges in a response of the interaction service
ScoreDen == 20     \* scores are the fractions 0/ScoreDen .. ScoreDen/ScoreDen

-----------------------------------------------------------------------------
(* Python values and text.                                                 *)

NoneVal == [type |-> "None"]
Str(s) == [type |-> "str", s |-> s]
Dict(d) == [type |-> "dict", d |-> d]
List(l) == [type |-> "list", l |-> l]

\* Python truthiness of None, a str, a dict and a list (`if not x`).
Truthy(v) ==
    CASE v.type = "None" -> FALSE
      [] v.type = "str"  -> v.s # <<>>
      [] v.type = "dict" -> DOMAIN v.d # {}
      [] v.type = "list" -> v.l # <<>>

Lowers == <<"a","b","c","d","e","f","g","h","i","j","k","l","m",
            "n","o","p","q","r","s","t","u","v","w","x","y","z">>
Uppers == <<"A","B","C","D","E","F","G","H","I","J","K","L","M",
            "N","O","P","Q","R","S","T","U","V","W","X","Y","Z">>
Whitespace == {" ", "\t", "\n", "\r"}

UpperChar(c) ==
    IF \E i \in DOMAIN Lowers : Lowers[i] = c
    THEN Uppers[CHOOSE i \in DOMAIN Lowers : Lowers[i] = c]
    ELSE c

LowerChar(c) ==
    IF \E i \in DOMAIN Uppers : Uppers[i] = c
    THEN Lowers[CHOOSE i \in DOMAIN Uppers : Uppers[i] = c]
    ELSE c

\* str.upper() and str.lower()
Upper(s) == [i \in 1..Len(s) |-> UpperChar(s[i])]
Lower(s) == [i \in 1..Len(s) |-> LowerChar(s[i])]

RECURSIVE LStrip(_)
LStrip(s) ==
    IF s # <<>> /\ Head(s) \in Whitespace THEN LStrip(Tail(s)) ELSE s

RECURSIVE RStrip(_)
RStrip(s) ==
    IF s # <<>> /\ s[Len(s)] \in Whitespace
    THEN RStrip(SubSeq(s, 1, Len(s) - 1))
    ELSE s

\* str.strip()
Strip(s) == RStrip(LStrip(s))

\* A plausible slip: the slice keeps one element too many.
PySlice_one_more(seq, k) ==
    SubSeq(seq, 1, IF k + 1 < Len(seq) THEN k + 1 ELSE Len(seq))

\* seq[:k] of Python, k of either sign
PySlice(seq, k) ==
    LET n == Len(seq)
        stop == IF k >= 0 THEN (IF k < n THEN k ELSE n)
                ELSE (IF n + k > 0 THEN n + k ELSE 0)
    IN SubSeq(seq, 1, stop)

SeqsUpTo(S, n) == UNION {[1..m -> S] : m \in 0..n}

Max(S) == CHOOSE x \in S : \A y \in S : y <= x

-----------------------------------------------------------------------------
(* file_reader.py                                                          *)

common_names ==
  << <<"g","e","n","e">>,
     <<"g","e","n","e","s">>,
     <<"g","e","n","e","_","s","y","m","b","o","l">>,
     <<"g","e","n","e","_","n","a","m","e">>,
     <<"s","y","m","b","o","l">>,
     <<"G","e","n","e">>,
     <<"G","e","n","e","s">>,
     <<"G","e","n","e","_","S","y","m","b","o","l">>,
     <<"G","e","n","e","_","N","a","m","e">>,
     <<"S","y","m","b","o","l">>,
     <<"G","E","N","E">>,
     <<"G","E","N","E","S">>,
     <<"G","E","N","E","_","S","Y","M","B","O","L">>,
     <<"G","E","N","E","_","N","A","M","E">>,
     <<"S","Y","M","B","O","L">>,
     <<"g","e","n","e","i","d">>,
     <<"g","e","n","e","_","i","d">>,
     <<"G","e","n","e","I","D">>,
     <<"G","e","n","e","_","I","D">> >>

InList(x, list) == \E i \in DOMAIN list : list[i] = x

\* the test of line 70
IsCommonName(col) ==
    \/ InList(col, common_names)
    \/ InList(Lower(col), [i \in DOMAIN common_names |-> Lower(common_names[i])])

\* A plausible slip: the loop keeps going and the last match wins.
detect_gene_column_last(columns) ==
    LET hits == {i \in DOMAIN columns : IsCommonName(columns[i])}
    IN IF hits = {} THEN NoneVal ELSE Str(columns[Max(hits)])

\* for col in df.columns: if <match>: return col;  return None
detect_gene_column(columns) ==
    LET hits == {i \in DOMAIN columns : IsCommonName(columns[i])}
    IN IF hits = {} THEN NoneVal
       ELSE Str(columns[CHOOSE i \in hits : \A j \in hits : i <= j])

\* A cell of a parsed table: a missing value (NaN) or text.
NA == [isna |-> TRUE, s |-> <<>>]
Cell(s) == [isna |-> FALSE, s |-> s]

NAN == <<"N","A","N">>

dropna(cells) == SelectSeq(cells, LAMBDA c : ~c.isna)
astype_str(cells) == [i \in DOMAIN cells |-> cells[i].s]
str_strip(strs) == [i \in DOMAIN strs |-> Strip(strs[i])]
str_upper(strs) == [i \in DOMAIN strs |-> Upper(strs[i])]

\* A plausible slip: .str.strip() left out of the chain.
normalize_no_strip(cells) ==
    SelectSeq(str_upper(astype_str(dropna(cells))),
              LAMBDA g : g # <<>> /\ g # NAN)

\* lines 46-47: dropna().astype(str).str.strip().str.upper().tolist(), then
\* [g for g in genes if g and g != 'NAN']
normalize(cells) ==
    SelectSeq(str_upper(str_strip(astype_str(dropna(cells)))),
              LAMBDA g : g # <<>> /\ g # NAN)

\* Path(file_path).suffix: from the last dot of the name, if the name has one
\* that is not its first character
PathSuffix(name) ==
    LET dots == {i \in 2..Len(name) : name[i] = "."}
    IN IF dots = {} THEN <<>> ELSE SubSeq(name, Max(dots), Len(name))

SupportedSuffixes ==
    { <<".","c","s","v">>, <<".","x","l","s","x">>, <<".","x","l","s">>,
      <<".","t","s","v">>, <<".","t","x","t">> }

ColumnIndex(columns, name) == CHOOSE i \in DOMAIN columns : columns[i] = name

NoRead == [raised |-> "", genes |-> <<>>, metadata |-> NoneVal]

\* read_gene_list(file_path, gene_column): a file is its name, whether it
\* exists, and the table pandas parses from it
read_gene_list(file, gene_column) ==
    IF ~file.exists THEN [NoRead EXCEPT !.raised = "FileNotFoundError"]
    ELSE IF Lower(PathSuffix(file.name)) \notin SupportedSuffixes
    THEN [NoRead EXCEPT !.raised = "ValueError"]
    ELSE
      LET df == file.df
          detected == detect_gene_column(df.columns)
          column == IF gene_column.type = "None"
                    THEN (IF detected.type = "None" THEN df.columns[1]
                          ELSE detected.s)
                    ELSE gene_column.s
      IN IF ~InList(column, df.columns)
         THEN [NoRead EXCEPT !.raised = "ValueError"]
         ELSE
           LET genes == normalize(df.data[ColumnIndex(df.columns, column)])
           IN [raised |-> "",
               genes |-> genes,
               metadata |-> [file |-> file.name,
                             total_rows |-> Len(df.data[1]),
                             gene_column |-> column,
                             gene_count |-> Len(genes),
                             columns |-> df.columns]]

-----------------------------------------------------------------------------
(* Inputs of the reader.                                                   *)

Gene_Symbol == <<"G","e","n","e","_","S","y","m","b","o","l">>
ColSymbol == <<"s","y","m","b","o","l">>
ColMixedCase == <<"G","E","N","E","_","s","y","m","b","o","l">>
ColSample == <<"s","a","m","p","l","e">>
ColLogFC == <<"l","o","g","F","C">>
ColGeneID == <<"G","e","n","e","I","D">>
ColAbsent == <<"n","o">>

ColumnNames == {Gene_Symbol, ColSymbol, ColMixedCase, ColSample, ColLogFC, ColGeneID}

Distinct(seq) == \A i, j \in DOMAIN seq : i # j => seq[i] # seq[j]

\* pandas gives the columns of a parsed table distinct names
ColumnSeqs == {cs \in SeqsUpTo(ColumnNames, MaxCols) : cs # <<>> /\ Distinct(cs)}

\* the one cell of column j of a generated many-column table
CellOf(j) == Cell(<<" ", "g", Lowers[j]>>)

ColumnTables ==
    {[columns |-> cs, data |-> [j \in DOMAIN cs |-> <<CellOf(j)>>]] : cs \in ColumnSeqs}

RawValues ==
    { NA, Cell(<<>>), Cell(<<" ">>), Cell(<<"a">>), Cell(<<" ","a"," ">>),
      Cell(<<"n","a","n">>), Cell(<<" ","N","a","N">>), Cell(<<"A">>),
      Cell(<<"a"," ","b">>), Cell(<<"\t","b","\n">>) }

ValueTables ==
    {[columns |-> <<ColSample>>, data |-> <<cells>>] : cells \in SeqsUpTo(RawValues, MaxRows)}

Tables == ColumnTables \cup ValueTables

FixedTable == [columns |-> <<ColSample, Gene_Symbol>>,
               data |-> << <<Cell(<<"s","1">>)>>, <<Cell(<<"t","p">>)>> >>]

NameCsv == <<"g",".","c","s","v">>

ReaderFiles ==
    {[name |-> NameCsv, exists |-> TRUE, df |-> t] : t \in Tables}
    \cup {[name |-> n, exists |-> TRUE, df |-> FixedTable] :
            n \in { <<"g",".","C","S","V">>, <<"g",".","t","s","v">>,
                    <<"g",".","v","2",".","x","l","s","x">>,
                    <<"g",".","j","s","o","n">>, <<"g">> }}
    \cup {[name |-> NameCsv, exists |-> FALSE, df |-> FixedTable]}

GeneColumnArgs == {NoneVal, Str(Gene_Symbol), Str(ColSample), Str(ColAbsent)}

-----------------------------------------------------------------------------
(* One call of read_gene_list.                                             *)

IdleReader == [pc |-> "idle", file |-> NoneVal, gene_column |-> NoneVal, out |-> NoRead]

InitReader ==
    reader \in {[pc |-> "start", file |-> f, gene_column |-> c, out |-> NoRead] :
                  f \in ReaderFiles, c \in GeneColumnArgs}

ReadGeneList ==
    /\ reader.pc = "start"
    /\ reader' = [reader EXCEPT !.pc = "done",
                                !.out = read_gene_list(reader.file, reader.gene_column)]
    /\ UNCHANGED <<pc, frame, ret, net, files, dirs, mech>>

-----------------------------------------------------------------------------
(* enrichr.py: the two remote calls.  A call is a request, a suspension     *)
(* while the service works, and the handling of what the HTTP client gives *)
(* back: an exception (transport failure, timeout) or a status and a body. *)

InvalidJson == [type |-> "invalid"]

TransportError == [kind |-> "error", status |-> 0, json |-> InvalidJson]
HttpResponse(status, json) == [kind |-> "status", status |-> status, json |-> json]

RECURSIVE Join(_, _)
\* sep.join(strs)
Join(strs, sep) ==
    IF strs = <<>> THEN <<>>
    ELSE IF Len(strs) = 1 THEN strs[1]
    ELSE strs[1] \o sep \o Join(Tail(strs), sep)

\* lines 15-21: the POST of addList, the gene list newline-joined in field "list"
SubmitRequest(genes) ==
    [op |-> "submit", list |-> Join(genes, <<"\n">>)]

\* lines 40-43: the GET of enrich
EnrichRequest(user_list_id, database) ==
    [op |-> "enrich", userListId |-> user_list_id, backgroundType |-> database]

\* lines 19-28 and 44-50: raise_for_status(), response.json(), and the
\* except clause that turns every exception into None
HandleResponse(resp) ==
    IF resp.kind = "error" THEN NoneVal
    ELSE IF resp.status < 200 \/ resp.status > 299 THEN NoneVal
    ELSE IF resp.json = InvalidJson THEN NoneVal
    ELSE resp.json

submit_gene_list(resp) == HandleResponse(resp)
get_enrichment(resp) == HandleResponse(resp)

-----------------------------------------------------------------------------
(* visualization.py                                                        *)

\* A p-value is 0 or a power of ten 10^(-negexp); negexp = 0 is p = 1.
PZero == [zero |-> TRUE, negexp |-> 0]
PTenTo(minus) == [zero |-> FALSE, negexp |-> minus]

\* line 42: -math.log10(p) if p > 0 else 0
NegLog10(p) == IF ~p.zero THEN p.negexp ELSE 0

NameMax == 45
NameKeep == 42

\* lines 34-37: names longer than 45 characters are cut to 42 and "..."
PlotName(name) ==
    IF Len(name) > NameMax THEN SubSeq(name, 1, NameKeep) \o <<".", ".", ".">>
    ELSE name

\* A path is relative or absolute; the files of the disk are keyed by the
\* parts of their absolute path.
Cwd == <<"work">>
RelPath(parts) == [type |-> "path", abs |-> FALSE, parts |-> parts]
AbsPath(parts) == [type |-> "path", abs |-> TRUE, parts |-> parts]
\* Path.absolute()
Absolute(path) == IF path.abs THEN path.parts ELSE Cwd \o path.parts
\* Path.parent
Parent(parts) == SubSeq(parts, 1, Len(parts) - 1)
\* mkdir(parents=True, exist_ok=True): the directory and all its ancestors
WithParents(dir) == {SubSeq(dir, 1, n) : n \in 1..Len(dir)}

DefaultPlotName == <<"enrichment_plot.png">>
NoTermsToPlot == [type |-> "str", s |-> "No terms to plot"]

\* what savefig writes: the figure built in lines 45-64
Chart(terms, title) ==
    [title |-> title,
     names |-> [i \in DOMAIN terms |-> PlotName(terms[i][2])],
     bars |-> [i \in DOMAIN terms |-> NegLog10(terms[i][3])],
     gene_counts |-> [i \in DOMAIN terms |-> Len(terms[i][6])]]

\* A plausible slip: the output_path argument is ignored.
TargetPath_default(output_path) == Cwd \o DefaultPlotName

\* lines 68-72: where the image goes
TargetPath(output_path) ==
    IF output_path.type = "None" THEN Cwd \o DefaultPlotName
    ELSE Absolute(output_path)

Plotted(raised, plot_path, fs, ds) ==
    [raised |-> raised, plot_path |-> plot_path, files |-> fs, dirs |-> ds]

\* what the renderer does once it is past the guard of lines 25-26
Render(terms, title, output_path, fs, ds) ==
    LET bars == {NegLog10(terms[i][3]) : i \in DOMAIN terms}
        max_val == Max(bars)
        target == TargetPath(output_path)
        made == IF output_path.type = "None" THEN ds
                ELSE ds \cup WithParents(Parent(target))
    IN IF max_val = 0
       THEN \* line 49: p / max_val
            Plotted("ZeroDivisionError", NoneVal, fs, ds)
       ELSE Plotted("", AbsPath(target),
                    (target :> Chart(terms, title)) @@ fs, made)

\* A plausible slip: the guard on an empty sequence is missing, and the
\* renderer saves an empty figure.
create_enrichment_barplot_unguarded(terms, title, output_path, fs, ds) ==
    IF terms = <<>>
    THEN LET target == TargetPath(output_path)
         IN Plotted("", AbsPath(target), (target :> Chart(terms, title)) @@ fs,
                    IF output_path.type = "None" THEN ds
                    ELSE ds \cup WithParents(Parent(target)))
    ELSE Render(terms, title, output_path, fs, ds)

\* create_enrichment_barplot(terms, title, output_path), on the disk (fs, ds)
create_enrichment_barplot(terms, title, output_path, fs, ds) ==
    IF terms = <<>> THEN Plotted("", NoTermsToPlot, fs, ds)
    ELSE Render(terms, title, output_path, fs, ds)

-----------------------------------------------------------------------------
(* server.py: the enrichment tools.  An invocation runs from one            *)
(* suspension (await) to the next in one step.                             *)

Invocations == {1, 2}

\* A line of output: the f-string and the values put into it.
Line(t, a) == [t |-> t, a |-> a]

Returned(lines) == [kind |-> "text", lines |-> lines]
Raised(exc) == [kind |-> "exception", exc |-> exc]
NotReturned == [kind |-> "none"]

Pending == [type |-> "pending"]

NoFrame ==
    [tool |-> "", gene_list |-> <<>>, database |-> "", top_n |-> 0,
     output_path |-> NoneVal, file_info |-> <<>>, submit_result |-> NoneVal,
     enrichment_result |-> NoneVal, terms |-> <<>>, plot_path |-> NoneVal]

\* A plausible slip: a missing userListId is read with a default of 0.
UserListId_default(submit_result) ==
    IF submit_result.type = "dict" /\ "userListId" \in DOMAIN submit_result.d
    THEN [raised |-> "", id |-> submit_result.d.userListId]
    ELSE [raised |-> "", id |-> 0]

\* lines 43 and 140: submit_result["userListId"]
UserListId(submit_result) ==
    IF submit_result.type # "dict" THEN [raised |-> "TypeError", id |-> 0]
    ELSE IF "userListId" \notin DOMAIN submit_result.d
    THEN [raised |-> "KeyError", id |-> 0]
    ELSE [raised |-> "", id |-> submit_result.d.userListId]

\* `database not in enrichment_result` of lines 45 and 143
HasDatabase(enrichment_result, database) ==
    /\ enrichment_result.type = "dict"
    /\ database \in DOMAIN enrichment_result.d

\* the three lines of entry i (lines 57-63; enumerate(terms, 1))
EntryLine(templates, terms, k) ==
    LET i == (k + 2) \div 3
        term == terms[i]
    IN CASE k % 3 = 1 -> Line(templates[1], <<i, term[2]>>)
         [] k % 3 = 2 -> Line(templates[2], <<term[3]>>)
         [] k % 3 = 0 -> Line(templates[3], <<Join(term[6], <<",", " ">>)>>)

EntryLines(templates, terms) ==
    [k \in 1..(3 * Len(terms)) |-> EntryLine(templates, terms, k)]

\* lines 49-65
PerformEnrichmentReport(gene_list, database, top_n, full, terms) ==
    << Line("Enrichr result for {database}", <<database>>),
       Line("Database: {database}", <<database>>),
       Line("Gene count: {len(gene_list)}", <<Len(gene_list)>>),
       Line("Enriched term count: {len(enrichment_result[database])}", <<Len(full)>>),
       Line("Top {top_n} terms:", <<top_n>>) >>
    \o EntryLines(<<"{i}. **{name}**", "   - P-value: {p_value:.2e}",
                    "   - gene: {', '.join(genes)}">>, terms)

\* lines 155-172
EnrichmentWithPlotReport(gene_list, database, top_n, full, terms, plot_path) ==
    << Line("Enrichment Analysis Results", <<>>),
       Line("Database: {database}", <<database>>),
       Line("Input genes: {len(gene_list)}", <<Len(gene_list)>>),
       Line("Enriched terms: {len(enrichment_result[database])}", <<Len(full)>>),
       Line("Plot saved to: {plot_path}", <<plot_path>>),
       Line("\nTop {top_n} Enriched Terms:\n", <<top_n>>) >>
    \o EntryLines(<<"{i}. {name}", "P-value: {p_value:.2e}",
                    "Genes: {', '.join(genes)}">>, terms)

\* lines 109-112
FileInfo(metadata) ==
    << Line("## File Information\n", <<>>),
       Line("- File: {metadata['file']}\n", <<metadata.file>>),
       Line("- Gene column: {metadata['gene_column']}\n", <<metadata.gene_column>>),
       Line("- Genes found: {metadata['gene_count']}\n\n", <<metadata.gene_count>>) >>

PlotTitle(database) == <<"Enrichment Analysis - ", database>>

Issue(p, request) ==
    net' = [net EXCEPT ![p] = Append(@, [request |-> request, result |-> Pending])]

Answer(p, result) ==
    [net EXCEPT ![p][Len(net[p])].result = result]

\* the invocation ends: analyze_gene_file puts its file information in
\* front of what perform_enrichment returned (line 114)
Finish(p, lines) ==
    /\ pc' = [pc EXCEPT ![p] = "done"]
    /\ ret' = [ret EXCEPT ![p] = Returned(frame[p].file_info \o lines)]

Throw(p, exc) ==
    /\ pc' = [pc EXCEPT ![p] = "done"]
    /\ ret' = [ret EXCEPT ![p] = Raised(exc)]

\* perform_enrichment, up to the await of line 38
CallPerformEnrichment(p, gene_list, database, top_n) ==
    /\ pc[p] = "idle"
    /\ frame' = [frame EXCEPT ![p] =
                   [NoFrame EXCEPT !.tool = "perform_enrichment",
                                   !.gene_list = gene_list,
                                   !.database = database,
                                   !.top_n = top_n]]
    /\ Issue(p, SubmitRequest(gene_list))
    /\ pc' = [pc EXCEPT ![p] = "await_submit"]
    /\ UNCHANGED <<ret, files, dirs, reader, mech>>

\* analyze_gene_file, lines 99-107, into perform_enrichment up to its first await
CallAnalyzeGeneFile(p, file, database, gene_column, top_n) ==
    /\ pc[p] = "idle"
    /\ LET r == read_gene_list(file, gene_column)
           entered == [NoFrame EXCEPT !.tool = "analyze_gene_file",
                                      !.database = database,
                                      !.top_n = top_n]
       IN IF r.raised # ""
          THEN /\ frame' = [frame EXCEPT ![p] = entered]
               /\ pc' = [pc EXCEPT ![p] = "done"]
               /\ ret' = [ret EXCEPT ![p] =
                            Returned(<<Line("Error reading file: {str(e)}", <<r.raised>>)>>)]
               /\ UNCHANGED net
          ELSE IF Len(r.genes) = 0
          THEN /\ frame' = [frame EXCEPT ![p] = entered]
               /\ pc' = [pc EXCEPT ![p] = "done"]
               /\ ret' = [ret EXCEPT ![p] =
                            Returned(<<Line("Error: No genes found in the file", <<>>)>>)]
               /\ UNCHANGED net
          ELSE /\ frame' = [frame EXCEPT ![p] =
                              [entered EXCEPT !.gene_list = r.genes,
                                              !.file_info = FileInfo(r.metadata)]]
               /\ Issue(p, SubmitRequest(r.genes))
               /\ pc' = [pc EXCEPT ![p] = "await_submit"]
               /\ UNCHANGED ret
    /\ UNCHANGED <<files, dirs, reader, mech>>

\* enrichment_with_plot, up to the await of line 136
CallEnrichmentWithPlot(p, gene_list, database, top_n, output_path) ==
    /\ pc[p] = "idle"
    /\ frame' = [frame EXCEPT ![p] =
                   [NoFrame EXCEPT !.tool = "enrichment_with_plot",
                                   !.gene_list = gene_list,
                                   !.database = database,
                                   !.top_n = top_n,
                                   !.output_path = output_path]]
    /\ Issue(p, SubmitRequest(gene_list))
    /\ pc' = [pc EXCEPT ![p] = "await_submit"]
    /\ UNCHANGED <<ret, files, dirs, reader, mech>>

\* the submit call returns: lines 38-44 (perform_enrichment, also when
\* analyze_gene_file called it) and lines 136-142 (enrichment_with_plot)
SubmitReturns(p, resp, failure) ==
    /\ pc[p] = "await_submit"
    /\ LET submit_result == submit_gene_list(resp)
           answered == Answer(p, submit_result)
           id == UserListId(submit_result)
       IN /\ frame' = [frame EXCEPT ![p].submit_result = submit_result]
          /\ IF ~Truthy(submit_result)
             THEN /\ Finish(p, <<Line(failure, <<>>)>>)
                  /\ net' = answered
             ELSE IF id.raised # ""
             THEN /\ Throw(p, id.raised)
                  /\ net' = answered
             ELSE /\ net' = [answered EXCEPT ![p] =
                               Append(@, [request |-> EnrichRequest(id.id, frame[p].database),
                                          result |-> Pending])]
                  /\ pc' = [pc EXCEPT ![p] = "await_enrich"]
                  /\ UNCHANGED ret
    /\ UNCHANGED <<files, dirs, reader, mech>>

PerformEnrichmentSubmitReturns(p, resp) ==
    /\ frame[p].tool \in {"perform_enrichment", "analyze_gene_file"}
    /\ SubmitReturns(p, resp, "Error: Failed to submit the gene list to Enrichr")

EnrichmentWithPlotSubmitReturns(p, resp) ==
    /\ frame[p].tool = "enrichment_with_plot"
    /\ SubmitReturns(p, resp, "Error: Failed to submit gene list")

\* the enrich call returns to perform_enrichment: lines 44-65
PerformEnrichmentEnrichReturns(p, resp) ==
    /\ pc[p] = "await_enrich"
    /\ frame[p].tool \in {"perform_enrichment", "analyze_gene_file"}
    /\ LET f == frame[p]
           enrichment_result == get_enrichment(resp)
       IN /\ net' = Answer(p, enrichment_result)
          /\ IF ~Truthy(enrichment_result) \/ ~HasDatabase(enrichment_result, f.database)
             THEN /\ Finish(p, <<Line("Error: Failed to get the enrichment results from Enrichr", <<>>)>>)
                  /\ frame' = [frame EXCEPT ![p].enrichment_result = enrichment_result]
             ELSE LET full == enrichment_result.d[f.database]
                      terms == PySlice(full, f.top_n)
                  IN /\ Finish(p, PerformEnrichmentReport(f.gene_list, f.database,
                                                          f.top_n, full, terms))
                     /\ frame' = [frame EXCEPT ![p].enrichment_result = enrichment_result,
                                               ![p].terms = terms]
    /\ UNCHANGED <<files, dirs, reader, mech>>

\* the enrich call returns to enrichment_with_plot: lines 142-172
EnrichmentWithPlotEnrichReturns(p, resp) ==
    /\ pc[p] = "await_enrich"
    /\ frame[p].tool = "enrichment_with_plot"
    /\ LET f == frame[p]
           enrichment_result == get_enrichment(resp)
       IN /\ net' = Answer(p, enrichment_result)
          /\ IF ~Truthy(enrichment_result) \/ ~HasDatabase(enrichment_result, f.database)
             THEN /\ Finish(p, <<Line("Error: Failed to get enrichment results for {database}",
                                      <<f.database>>)>>)
                  /\ frame' = [frame EXCEPT ![p].enrichment_result = enrichment_result]
                  /\ UNCHANGED <<files, dirs>>
             ELSE LET full == enrichment_result.d[f.database]
                      terms == PySlice(full, f.top_n)
                      plot == create_enrichment_barplot(terms, PlotTitle(f.database),
                                                        f.output_path, files, dirs)
                  IN /\ frame' = [frame EXCEPT ![p].enrichment_result = enrichment_result,
                                               ![p].terms = terms,
                                               ![p].plot_path = plot.plot_path]
                     /\ files' = plot.files
                     /\ dirs' = plot.dirs
                     /\ IF plot.raised # ""
                        THEN Throw(p, plot.raised)
                        ELSE Finish(p, EnrichmentWithPlotReport(f.gene_list, f.database,
                                           f.top_n, full, terms, plot.plot_path))
    /\ UNCHANGED <<reader, mech>>

-----------------------------------------------------------------------------
(* stringdb.py and server.py: explain_mechanism.                            *)

\* A score is a fraction num/den; score >= t/10 is 10 * num >= t * den.
Frac(n) == [num |-> n, den |-> ScoreDen]
AtLeastTenths(score, t) == 10 * score.num >= t * score.den
Positive(score) == score.num > 0

Scored(score, label) == [value |-> score, fmt |-> ".3f", label |-> label]

\* A plausible slip: the top band is entered above 0.9 only.
format_score_strict(score) ==
    IF 10 * score.num > 9 * score.den THEN Scored(score, "highest confidence")
    ELSE IF AtLeastTenths(score, 7) THEN Scored(score, "high confidence")
    ELSE IF AtLeastTenths(score, 4) THEN Scored(score, "medium confidence")
    ELSE Scored(score, "low confidence")

\* stringdb.py, format_score
format_score(score) ==
    IF AtLeastTenths(score, 9) THEN Scored(score, "highest confidence")
    ELSE IF AtLeastTenths(score, 7) THEN Scored(score, "high confidence")
    ELSE IF AtLeastTenths(score, 4) THEN Scored(score, "medium confidence")
    ELSE Scored(score, "low confidence")

\* server.py lines 241-248
Interpretation(score) ==
    IF AtLeastTenths(score, 9)
    THEN Line("These genes have a **very strong** interaction with highest confidence.", <<>>)
    ELSE IF AtLeastTenths(score, 7)
    THEN Line("These genes have a **strong** interaction with high confidence.", <<>>)
    ELSE IF AtLeastTenths(score, 4)
    THEN Line("These genes have a **moderate** interaction with medium confidence.", <<>>)
    ELSE Line("These genes have a **weak** or poorly characterized interaction.", <<>>)

\* item.get(key) == value, for a value that is not None
GetIs(item, key, value) == key \in DOMAIN item /\ item[key] = value

\* item.get(key, default)
Get(item, key, default) == IF key \in DOMAIN item THEN item[key] ELSE default

\* A plausible slip: only the order of the query is tried.
IsPair_forward(item, gene_a, gene_b) ==
    /\ GetIs(item, "preferredName_A", Upper(gene_a))
    /\ GetIs(item, "preferredName_B", Upper(gene_b))

\* the condition of lines 200-203
IsPair(item, gene_a, gene_b) ==
    \/ /\ GetIs(item, "preferredName_A", Upper(gene_a))
       /\ GetIs(item, "preferredName_B", Upper(gene_b))
    \/ /\ GetIs(item, "preferredName_A", Upper(gene_b))
       /\ GetIs(item, "preferredName_B", Upper(gene_a))

\* lines 198-205: the first item that matches, else None
FindTarget(interactions, gene_a, gene_b) ==
    LET hits == {i \in DOMAIN interactions : IsPair(interactions[i], gene_a, gene_b)}
    IN IF hits = {} THEN NoneVal
       ELSE Dict(interactions[CHOOSE i \in hits : \A j \in hits : i <= j])

\* lines 222-230, in the order of the dict
evidence ==
    << <<"nscore", "Gene Neighborhood">>, <<"fscore", "Gene Fusion">>,
       <<"pscore", "Phylogenetic Profiles">>, <<"ascore", "Co-expression">>,
       <<"escore", "Experimental">>, <<"dscore", "Database">>,
       <<"tscore", "Text Mining">> >>

\* lines 232-236
EvidenceLines(item) ==
    LET shown == SelectSeq(evidence,
                           LAMBDA e : e[1] \in DOMAIN item /\ Positive(item[e[1]]))
    IN [i \in DOMAIN shown |->
          Line("- **{name}**: {ev_score:.3f}", <<shown[i][2], item[shown[i][1]]>>)]

\* lines 211-250
InteractionReport(gene_a, gene_b, item) ==
    LET score == Get(item, "score", Frac(0))
    IN << Line("## Interaction: {gene_a} <-> {gene_b}", <<gene_a, gene_b>>),
          Line("", <<>>),
          Line("### Combined Score: {format_score(score)}", <<format_score(score)>>),
          Line("", <<>>),
          Line("### Evidence Channels:", <<>>) >>
       \o EvidenceLines(item)
       \o << Line("", <<>>),
             Line("### Interpretation", <<>>),
             Interpretation(score) >>

\* stringdb.py lines 22-37: the GET of network, and what comes back
InteractionRequest(gene_a, gene_b, species) ==
    [op |-> "network",
     identifiers |-> gene_a \o <<"%", "0", "d">> \o gene_b,
     species |-> species,
     caller_identity |-> "pathway-mcp-agent"]

get_interaction(resp) == HandleResponse(resp)

IdleMech ==
    [pc |-> "idle", gene_a |-> <<>>, gene_b |-> <<>>, request |-> NoneVal,
     interactions |-> NoneVal, out |-> NotReturned]

\* explain_mechanism, up to the await of line 192
CallExplainMechanism(gene_a, gene_b, species) ==
    /\ mech.pc = "idle"
    /\ mech' = [mech EXCEPT !.pc = "await_interaction",
                            !.gene_a = gene_a,
                            !.gene_b = gene_b,
                            !.request = InteractionRequest(gene_a, gene_b, species)]
    /\ UNCHANGED <<pc, frame, ret, net, files, dirs, reader>>

\* the network call returns: lines 192-250
InteractionReturns(resp) ==
    /\ mech.pc = "await_interaction"
    /\ LET interactions == get_interaction(resp)
           target == FindTarget(interactions.l, mech.gene_a, mech.gene_b)
           lines ==
             IF ~Truthy(interactions)
             THEN <<Line("No interaction data found between {gene_a} and {gene_b}",
                         <<mech.gene_a, mech.gene_b>>)>>
             ELSE IF ~Truthy(target)
             THEN <<Line("No direct interaction found between {gene_a} and {gene_b}",
                         <<mech.gene_a, mech.gene_b>>)>>
             ELSE InteractionReport(mech.gene_a, mech.gene_b, target.d)
       IN mech' = [mech EXCEPT !.pc = "done",
                               !.interactions = interactions,
                               !.out = Returned(lines)]
    /\ UNCHANGED <<pc, frame, ret, net, files, dirs, reader>>

-----------------------------------------------------------------------------
(* Inputs of the tools and answers of the services.                        *)

TP53 == <<"T","P","5","3">>
MDM2 == <<"M","D","M","2">>
GeneLists == {<<>>, <<TP53>>, <<TP53, MDM2>>}

Databases == {"KEGG_2021_Human", "GO_Biological_Process_2021"}
TopNs == (-1)..MaxTopN

OutputPaths ==
    {NoneVal, RelPath(<<"enrichment_plot.png">>), RelPath(<<"out", "a.png">>),
     AbsPath(<<"tmp", "b.png">>)}

BlankTable == [columns |-> <<ColSample>>, data |-> <<<<NA, Cell(<<" ">>)>>>>]

ToolFiles ==
    { [name |-> NameCsv, exists |-> TRUE, df |-> FixedTable],
      [name |-> NameCsv, exists |-> TRUE, df |-> BlankTable],
      [name |-> NameCsv, exists |-> FALSE, df |-> FixedTable],
      [name |-> <<"g",".","j","s","o","n">>, exists |-> TRUE, df |-> FixedTable] }

ToolGeneColumns == {NoneVal, Str(ColAbsent)}

\* Enrichr's term: [rank, name, p-value, z-score, combined score, genes]
LongName == [i \in 1..(NameMax + 1) |-> "x"]
TermPool ==
    { <<1, <<"A","p","o","p","t","o","s","i","s">>, PTenTo(5), 3, 40, <<TP53, MDM2>> >>,
      <<2, LongName, PTenTo(2), 2, 9, <<TP53>> >>,
      <<3, <<"p","5","3">>, PZero, 1, 1, <<MDM2>> >> }

TermSeqs == SeqsUpTo(TermPool, MaxTerms)

SubmitResponses ==
    { TransportError,
      HttpResponse(500, Dict([userListId |-> 7, shortId |-> "a"])),
      HttpResponse(200, InvalidJson),
      HttpResponse(200, Dict(<<>>)),
      HttpResponse(200, Dict([error |-> "bad list"])),
      HttpResponse(200, Dict([userListId |-> 7, shortId |-> "a"])),
      HttpResponse(200, Dict([userListId |-> 8, shortId |-> "b"])) }

EnrichResponses ==
    { TransportError,
      HttpResponse(404, InvalidJson),
      HttpResponse(200, InvalidJson),
      HttpResponse(200, Dict(<<>>)) }
    \cup {HttpResponse(200, Dict(db :> ts)) : db \in Databases, ts \in TermSeqs}

QuerySymbols == { <<"a">>, <<"A">>, <<"b">>, <<"B">> }

EdgeShapes ==
    { [preferredName_A |-> <<"A">>, preferredName_B |-> <<"B">>],
      [preferredName_A |-> <<"B">>, preferredName_B |-> <<"A">>],
      [preferredName_A |-> <<"A">>, preferredName_B |-> <<"C">>],
      [preferredName_A |-> <<"a">>, preferredName_B |-> <<"B">>],
      [stringId_A |-> <<"9">>, preferredName_B |-> <<"B">>] }

\* an edge with its score and two evidence channels, or (n < 0) without
Edge(shape, n) ==
    IF n < 0 THEN shape
    ELSE shape @@ [score |-> Frac(n), escore |-> Frac(n), tscore |-> Frac(0)]

\* the edges of one answer: the first has score n/ScoreDen (none when n < 0),
\* the later ones scores that differ from it
EdgeList(shapes, n) ==
    [i \in DOMAIN shapes |->
       Edge(shapes[i], IF i = 1 THEN n ELSE (n + 1 + 7 * (i - 1)) % (ScoreDen + 1))]

InteractionResponses ==
    { TransportError, HttpResponse(503, InvalidJson), HttpResponse(200, InvalidJson) }
    \cup {HttpResponse(200, List(EdgeList(shapes, n))) :
            shapes \in SeqsUpTo(EdgeShapes, MaxEdges), n \in (-1)..ScoreDen}

-----------------------------------------------------------------------------
(* Specifications.                                                         *)

EmptyDisk == <<>>
OldChart == [title |-> <<"old">>, names |-> <<>>, bars |-> <<>>, gene_counts |-> <<>>]
OldDisk == (Cwd \o DefaultPlotName) :> OldChart

IdleTools ==
    /\ pc = [p \in Invocations |-> "idle"]
    /\ frame = [p \in Invocations |-> NoFrame]
    /\ ret = [p \in Invocations |-> NotReturned]
    /\ net = [p \in Invocations |-> <<>>]
    /\ dirs = {Cwd}

\* One invocation of an enrichment tool, any tool, any answer of the service.
Init ==
    /\ IdleTools
    /\ files \in {EmptyDisk, OldDisk}
    /\ reader = IdleReader
    /\ mech = IdleMech

Next ==
    \/ \E g \in GeneLists, db \in Databases, n \in TopNs :
         CallPerformEnrichment(1, g, db, n)
    \/ \E f \in ToolFiles, db \in Databases, c \in ToolGeneColumns, n \in TopNs :
         CallAnalyzeGeneFile(1, f, db, c, n)
    \/ \E g \in GeneLists, db \in Databases, n \in TopNs, o \in OutputPaths :
         CallEnrichmentWithPlot(1, g, db, n, o)
    \/ \E resp \in SubmitResponses : PerformEnrichmentSubmitReturns(1, resp)
    \/ \E resp \in SubmitResponses : EnrichmentWithPlotSubmitReturns(1, resp)
    \/ \E resp \in EnrichResponses : PerformEnrichmentEnrichReturns(1, resp)
    \/ \E resp \in EnrichResponses : EnrichmentWithPlotEnrichReturns(1, resp)

Spec == Init /\ [][Next]_vars

\* Two invocations of enrichment_with_plot, interleaved at their awaits.
InitConcurrent ==
    /\ IdleTools
    /\ files = EmptyDisk
    /\ reader = IdleReader
    /\ mech = IdleMech

ConcurrentSubmitResponses ==
    { TransportError, HttpResponse(200, Dict([userListId |-> 7, shortId |-> "a"])) }

ConcurrentEnrichResponses ==
    { TransportError }
    \cup {HttpResponse(200, Dict("KEGG_2021_Human" :> ts)) : ts \in TermSeqs}

NextConcurrent ==
    \E p \in Invocations :
      \/ \E n \in {1, MaxTopN}, o \in OutputPaths :
           CallEnrichmentWithPlot(p, <<TP53>>, "KEGG_2021_Human", n, o)
      \/ \E resp \in ConcurrentSubmitResponses : EnrichmentWithPlotSubmitReturns(p, resp)
      \/ \E resp \in ConcurrentEnrichResponses : EnrichmentWithPlotEnrichReturns(p, resp)

SpecConcurrent == InitConcurrent /\ [][NextConcurrent]_vars

\* One call of read_gene_list on a generated file.
InitRead ==
    /\ IdleTools
    /\ files = EmptyDisk
    /\ InitReader
    /\ mech = IdleMech

NextRead == ReadGeneList

SpecReader == InitRead /\ [][NextRead]_vars

\* One invocation of explain_mechanism.
InitMechanism ==
    /\ IdleTools
    /\ files = EmptyDisk
    /\ reader = IdleReader
    /\ mech = IdleMech

NextMechanism ==
    \/ \E a \in QuerySymbols, b \in QuerySymbols : CallExplainMechanism(a, b, 9606)
    \/ \E resp \in InteractionResponses : InteractionReturns(resp)

SpecMechanism == InitMechanism /\ [][NextMechanism]_vars

-----------------------------------------------------------------------------
(* What the claims speak of.                                               *)

Min(a, b) == IF a < b THEN a ELSE b

Done(p) == pc[p] = "done"

\* the text is a report, not an error sentence
IsReport(lines) ==
    \E i \in DOMAIN lines :
        lines[i].t \in {"Top {top_n} terms:", "\nTop {top_n} Enriched Terms:\n"}

IsErrorText(r) ==
    /\ r.kind = "text"
    /\ Len(r.lines) = 1
    /\ r.lines[1].t \in
         { "Error: Failed to submit the gene list to Enrichr",
           "Error: Failed to submit gene list",
           "Error: Failed to get the enrichment results from Enrichr",
           "Error: Failed to get enrichment results for {database}",
           "Error reading file: {str(e)}",
           "Error: No genes found in the file" }

GaveReport(p) == Done(p) /\ ret[p].kind = "text" /\ IsReport(ret[p].lines)

\* the ranked sequence the service returned to invocation p
ServiceTerms(p) == net[p][2].result.d[frame[p].database]

NumberedLines(lines) ==
    SelectSeq(lines, LAMBDA l : l.t \in {"{i}. **{name}**", "{i}. {name}"})

PValueLines(lines) ==
    SelectSeq(lines, LAMBDA l : l.t \in {"   - P-value: {p_value:.2e}",
                                         "P-value: {p_value:.2e}"})

\* the path the report of invocation p names
ReportedPlot(p) ==
    LET at == CHOOSE i \in DOMAIN ret[p].lines :
                  ret[p].lines[i].t = "Plot saved to: {plot_path}"
    IN ret[p].lines[at].a[1]

\* the file an output_path argument names
ResolvedArg(p) ==
    LET o == frame[p].output_path
    IN IF o.type = "None" THEN <<"work", "enrichment_plot.png">>
       ELSE IF o.abs THEN o.parts ELSE <<"work">> \o o.parts

\* the chart of invocation p's own terms
OwnChart(p) ==
    Chart(SubSeq(ServiceTerms(p), 1, Min(Len(ServiceTerms(p)), frame[p].top_n)),
          <<"Enrichment Analysis - ", frame[p].database>>)

-----------------------------------------------------------------------------
(* Claims about the enrichment tools.                                      *)

\* C1: an invocation of perform_enrichment or enrichment_with_plot never
\* ends by propagating an exception, whatever the service answered: it ends
\* by returning text.
C1_NeverRaises ==
    \A p \in Invocations :
        (Done(p) /\ frame[p].tool \in {"perform_enrichment", "enrichment_with_plot"})
            => ret[p].kind = "text"

\* C2: with an empty gene set, a tool that needs genes issues no call to the
\* enrichment service and returns an error text.
C2_EmptyGeneSetRejected ==
    \A p \in Invocations :
        (pc[p] # "idle" /\ frame[p].gene_list = <<>>)
            => /\ net[p] = <<>>
               /\ Done(p) => IsErrorText(ret[p])

\* C3: for a service sequence of n terms and top_n = k >= 0 the report has
\* exactly min(n, k) entries, numbered 1..min(n, k), and entry i carries the
\* name and the p-value of the i-th term of the service's sequence.
C3_ReportTruncation ==
    \A p \in Invocations :
        (GaveReport(p) /\ frame[p].top_n >= 0)
            => LET full == ServiceTerms(p)
                   m == Min(Len(full), frame[p].top_n)
                   entries == NumberedLines(ret[p].lines)
                   pvalues == PValueLines(ret[p].lines)
               IN /\ Len(entries) = m
                  /\ Len(pvalues) = m
                  /\ \A i \in 1..m :
                        /\ entries[i].a[1] = i
                        /\ entries[i].a[2] = full[i][2]
                        /\ pvalues[i].a[1] = full[i][3]

C3_Witness ==
    \E p \in Invocations :
        /\ GaveReport(p)
        /\ frame[p].tool = "perform_enrichment"
        /\ frame[p].top_n = 1
        /\ Len(ServiceTerms(p)) = 2
        /\ ServiceTerms(p)[1] # ServiceTerms(p)[2]
        /\ Len(NumberedLines(ret[p].lines)) = 1

\* C8: when the renderer is given an empty term sequence it returns the
\* text "No terms to plot", and that step creates or overwrites no image
\* file and creates no directory.
C8_EmptyPlotGuard ==
    [][\A p \in Invocations :
         ( /\ pc[p] = "await_enrich"
           /\ pc'[p] = "done"
           /\ frame'[p].tool = "enrichment_with_plot"
           /\ frame'[p].plot_path.type # "None"
           /\ frame'[p].terms = <<>> )
         => /\ frame'[p].plot_path = NoTermsToPlot
            /\ ReportedPlot(p)' = NoTermsToPlot
            /\ files' = files
            /\ dirs' = dirs]_vars

C8_Witness ==
    \E p \in Invocations :
        /\ GaveReport(p)
        /\ frame[p].tool = "enrichment_with_plot"
        /\ frame[p].top_n = 0
        /\ Len(ServiceTerms(p)) > 0
        /\ frame[p].output_path = RelPath(<<"out", "a.png">>)
        /\ ReportedPlot(p) = NoTermsToPlot
        /\ files = OldDisk
        /\ dirs = {Cwd}

\* C9: an invocation issues the submit call at most once and the enrich call
\* at most once; the enrich call comes after the submit call has returned a
\* result and carries that result's userListId; after a call that failed no
\* further call is issued.
C9_SubmitThenFetch ==
    \A p \in Invocations :
        LET calls == net[p]
        IN /\ Len(calls) <= 2
           /\ \A i \in DOMAIN calls :
                 /\ calls[i].request.op = "submit" => i = 1
                 /\ calls[i].request.op = "enrich" =>
                       /\ i = 2
                       /\ calls[1].request.op = "submit"
                       /\ calls[1].result.type = "dict"
                       /\ "userListId" \in DOMAIN calls[1].result.d
                       /\ calls[i].request.userListId = calls[1].result.d.userListId
                 /\ calls[i].result.type = "None" => i = Len(calls)

C9_Witness ==
    \E p \in Invocations :
        /\ Done(p)
        /\ frame[p].tool = "analyze_gene_file"
        /\ Len(net[p]) = 2
        /\ net[p][1].result = Dict([userListId |-> 8, shortId |-> "b"])
        /\ net[p][2].request.userListId = 8
        /\ net[p][2].result.type = "None"

\* C10 as stated: once two interleaved invocations of enrichment_with_plot
\* have finished, the image at the path each one reported holds the chart of
\* that invocation's own terms.
C10_OwnChartAlways ==
    (\A p \in Invocations : Done(p))
        => \A p \in Invocations :
              (GaveReport(p) /\ ReportedPlot(p).type = "path")
                  => /\ ReportedPlot(p).parts \in DOMAIN files
                     /\ files[ReportedPlot(p).parts] = OwnChart(p)

\* C10 as amended: the same, when the output paths of the two invocations
\* name different files.
C10_OwnChartWhenPathsDiffer ==
    ((\A p \in Invocations : Done(p)) /\ ResolvedArg(1) # ResolvedArg(2))
        => \A p \in Invocations :
              (GaveReport(p) /\ ReportedPlot(p).type = "path")
                  => /\ ReportedPlot(p).parts \in DOMAIN files
                     /\ files[ReportedPlot(p).parts] = OwnChart(p)

C10_Witness ==
    /\ \A p \in Invocations : GaveReport(p) /\ ReportedPlot(p).type = "path"
    /\ frame[1].output_path = NoneVal
    /\ frame[2].output_path = RelPath(<<"out", "a.png">>)
    /\ OwnChart(1) # OwnChart(2)
    /\ files[ReportedPlot(1).parts] = OwnChart(1)
    /\ files[ReportedPlot(2).parts] = OwnChart(2)

-----------------------------------------------------------------------------
(* Claims about the reader.                                                *)

ReadOk == reader.pc = "done" /\ reader.out.raised = ""

\* the cells of the column the reader chose
ChosenCells ==
    LET df == reader.file.df
    IN df.data[CHOOSE j \in DOMAIN df.columns :
                   df.columns[j] = reader.out.metadata.gene_column]

\* the alias list, in lower case
Aliases ==
    { <<"g","e","n","e">>, <<"g","e","n","e","s">>,
      <<"g","e","n","e","_","s","y","m","b","o","l">>,
      <<"g","e","n","e","_","n","a","m","e">>, <<"s","y","m","b","o","l">>,
      <<"g","e","n","e","i","d">>, <<"g","e","n","e","_","i","d">> }

LowerLetters == {Lowers[i] : i \in DOMAIN Lowers}

\* C5 as stated: with no explicit column, a table that has a column named
\* Gene_Symbol has Gene_Symbol chosen as its gene column, wherever it stands.
C5_GeneSymbolChosen ==
    ( /\ ReadOk
      /\ reader.gene_column = NoneVal
      /\ \E j \in DOMAIN reader.file.df.columns : reader.file.df.columns[j] = Gene_Symbol )
    => reader.out.metadata.gene_column = Gene_Symbol

\* C5 as amended: with no explicit column, a table that has a column named
\* Gene_Symbol has as its gene column the first column, in table order, whose
\* name is an alias in some capitalization: Gene_Symbol when no such column
\* stands before it, else that earlier column.
C5_FirstAliasChosen ==
    ( /\ ReadOk
      /\ reader.gene_column = NoneVal
      /\ \E j \in DOMAIN reader.file.df.columns : reader.file.df.columns[j] = Gene_Symbol )
    => LET columns == reader.file.df.columns
           at == CHOOSE j \in DOMAIN columns : columns[j] = Gene_Symbol
           before == {j \in 1..(at - 1) : Lower(columns[j]) \in Aliases}
           chosen == reader.out.metadata.gene_column
       IN /\ before = {} => chosen = Gene_Symbol
          /\ before # {} => chosen = columns[CHOOSE j \in before : \A k \in before : j <= k]

C5_Witness ==
    /\ ReadOk
    /\ reader.gene_column = NoneVal
    /\ reader.file.df.columns = <<ColLogFC, Gene_Symbol>>
    /\ reader.out.metadata.gene_column = Gene_Symbol
    /\ reader.out.genes = <<<<"G", "B">>>>

\* C7: the genes read from a column are no more than its cells; each is
\* upper-case, has no whitespace at either end and is neither "" nor "NAN";
\* and they are, in order and with duplicates, the trimmed upper-cased texts
\* of the cells that are not missing and do not become "" or "NAN".
C7_Normalizer ==
    ReadOk =>
      LET cells == ChosenCells
          genes == reader.out.genes
          kept == {j \in DOMAIN cells :
                     /\ ~cells[j].isna
                     /\ Upper(Strip(cells[j].s)) \notin {<<>>, <<"N","A","N">>}}
          nth(i) == CHOOSE j \in kept : Cardinality({x \in kept : x < j}) = i - 1
      IN /\ Len(genes) <= Len(cells)
         /\ Len(genes) = Cardinality(kept)
         /\ \A i \in DOMAIN genes :
               /\ genes[i] # <<>>
               /\ genes[i] # <<"N","A","N">>
               /\ \A k \in DOMAIN genes[i] : genes[i][k] \notin LowerLetters
               /\ genes[i][1] \notin Whitespace
               /\ genes[i][Len(genes[i])] \notin Whitespace
               /\ genes[i] = Upper(Strip(cells[nth(i)].s))

C7_Witness ==
    /\ ReadOk
    /\ ChosenCells = <<Cell(<<" ","N","a","N">>), NA, Cell(<<"\t","b","\n">>)>>
    /\ reader.out.genes = <<<<"B">>>>

-----------------------------------------------------------------------------
(* Claims about explain_mechanism.                                         *)

MechDone == mech.pc = "done"

\* the edges the service returned, none when the call failed
ServiceEdges == IF mech.interactions.type = "list" THEN mech.interactions.l ELSE <<>>

HasName(e, key, name) == key \in DOMAIN e /\ e[key] = name

\* the edges between the two upper-cased query symbols, in either order
Matching ==
    {i \in DOMAIN ServiceEdges :
        \/ /\ HasName(ServiceEdges[i], "preferredName_A", Upper(mech.gene_a))
           /\ HasName(ServiceEdges[i], "preferredName_B", Upper(mech.gene_b))
        \/ /\ HasName(ServiceEdges[i], "preferredName_A", Upper(mech.gene_b))
           /\ HasName(ServiceEdges[i], "preferredName_B", Upper(mech.gene_a))}

FirstMatching == ServiceEdges[CHOOSE i \in Matching : \A j \in Matching : i <= j]

MechLine(t) == CHOOSE i \in DOMAIN mech.out.lines : mech.out.lines[i].t = t

HasMechLine(t) == \E i \in DOMAIN mech.out.lines : mech.out.lines[i].t = t

\* the score and label the report shows
ShownScore == mech.out.lines[MechLine("### Combined Score: {format_score(score)}")].a[1]

IsInteractionReport == MechDone /\ HasMechLine("### Combined Score: {format_score(score)}")

\* C4: the edge reported is the first edge, in the order of the service's
\* sequence, between the two upper-cased query symbols in either order; a
\* non-empty sequence without such an edge gives "No direct interaction
\* found", and an empty one gives "No interaction data found".
C4_PairLookup ==
    MechDone =>
      /\ ServiceEdges = <<>> =>
            /\ Len(mech.out.lines) = 1
            /\ HasMechLine("No interaction data found between {gene_a} and {gene_b}")
      /\ (ServiceEdges # <<>> /\ Matching = {}) =>
            /\ Len(mech.out.lines) = 1
            /\ HasMechLine("No direct interaction found between {gene_a} and {gene_b}")
      /\ Matching # {} =>
            /\ IsInteractionReport
            /\ "score" \in DOMAIN FirstMatching => ShownScore.value = FirstMatching.score

C4_Witness ==
    /\ MechDone
    /\ mech.gene_a = <<"B">>
    /\ mech.gene_b = <<"a">>
    /\ Len(ServiceEdges) = 2
    /\ Matching = {2}
    /\ ServiceEdges[2].preferredName_A = <<"A">>
    /\ ServiceEdges[2].preferredName_B = <<"B">>
    /\ 10 * ServiceEdges[2].score.num = 8 * ServiceEdges[2].score.den
    /\ ServiceEdges[1].score # ServiceEdges[2].score
    /\ ShownScore.value = ServiceEdges[2].score
    /\ ShownScore.label = "high confidence"

Sentence(t) == HasMechLine(t)

\* C6: a score s is labelled "highest confidence" iff s >= 0.9, "high
\* confidence" iff 0.7 <= s < 0.9, "medium confidence" iff 0.4 <= s < 0.7 and
\* "low confidence" iff s < 0.4, and the interpretation sentence of the same
\* report is the one of the same band.
C6_ScoreBands ==
    IsInteractionReport =>
      LET n == ShownScore.value.num
          d == ShownScore.value.den
          label == ShownScore.label
      IN /\ label \in {"highest confidence", "high confidence",
                       "medium confidence", "low confidence"}
         /\ label = "highest confidence" <=> 10 * n >= 9 * d
         /\ label = "high confidence" <=> (10 * n >= 7 * d /\ 10 * n < 9 * d)
         /\ label = "medium confidence" <=> (10 * n >= 4 * d /\ 10 * n < 7 * d)
         /\ label = "low confidence" <=> 10 * n < 4 * d
         /\ label = "highest confidence" <=>
              Sentence("These genes have a **very strong** interaction with highest confidence.")
         /\ label = "high confidence" <=>
              Sentence("These genes have a **strong** interaction with high confidence.")
         /\ label = "medium confidence" <=>
              Sentence("These genes have a **moderate** interaction with medium confidence.")
         /\ label = "low confidence" <=>
              Sentence("These genes have a **weak** or poorly characterized interaction.")

C6_Witness ==
    /\ IsInteractionReport
    /\ 10 * ShownScore.value.num = 9 * ShownScore.value.den
    /\ ShownScore.label = "highest confidence"
    /\ Sentence("These genes have a **very strong** interaction with highest confidence.")

====
